---- MODULE Spec2Model ----
(***************************************************************************)
(* Key-generation service: the numeric encoder (base 62, fixed width), the *)
(* three integer strategies (random, Redis counter, primitive root over    *)
(* the Redis counter), the blanket facade that encodes their integers, and *)
(* the gRPC boundary (Ping, GenerateKey) with its error-to-status mapping. *)
(*                                                                         *)
(* Numbers.  usize is 64 bits and the primitive configuration is u128.     *)
(* A u128 is written [hi |-> h, lo |-> l] and stands for h * 2^64 + l; the *)
(* model draws lo and every other integer below 2^31, so usize arithmetic  *)
(* never wraps inside the bounds, and `x as usize` of a u128 keeps lo.     *)
(* Where the full width of the word matters (max_number() and the u128     *)
(* arithmetic of calculate_key) a value is written as limbs of 16 bits.    *)
(***************************************************************************)
EXTENDS Integers, Sequences, FiniteSets, TLC

VARIABLES
    phase,       \* main(): "init" before construction, then "serving" or "failed"
    cfg,         \* GeneratorConfig chosen at startup (config.rs)
    digits,      \* NUMBER_DIGITS as number_digits() parses it
    store,       \* the Redis server as the client sees it: "up" or "down"
    counter,     \* the value of the Redis key "incr:count"
    pc,          \* per client: "idle" or "inflight" (a GenerateKey being handled)
    last,        \* the latest RPC answered, with what the handler did for it
    issuedKeys,  \* keys returned by successful GenerateKey calls of counter strategies
    call,        \* unit harness: the function applied and its arguments
    ret          \* unit harness: what it returned

vars == <<phase, cfg, digits, store, counter, pc, last, issuedKeys, call, ret>>

(***************************************************************************)
(* Bounds of the model.                                                    *)
(***************************************************************************)
MaxDigits == 2          \* widths drawn for the encoder harness
MaxServeDigits == 1     \* widths drawn for the running service
NumClients == 2         \* concurrent GenerateKey callers
MaxCounter == 63        \* cap on "incr:count" under the Redis strategy
MaxModExpCounter == 6   \* cap on "incr:count" under the primitive-root strategy
MaxPrime == 5           \* low word of GENERATOR_PRIME drawn at startup
MaxRoot == 2            \* GENERATOR_PRIME_PRIMITIVE drawn at startup
MaxStart == 1           \* GENERATOR_INCREMENT_START drawn at startup
MaxCalcPrime == 7       \* harness: prime
MaxCalcRoot == 5        \* harness: primitive_root
MaxCalcStart == 2       \* harness: start
MaxCalcIncr == 8        \* harness: incr
MaxWordDigits == 11     \* harness: NUMBER_DIGITS given to max_number()
MaxWideDigits == 1      \* harness: NUMBER_DIGITS of the u128 calculate_key
MaxWidePrime == 3       \* harness: low word of the u128 prime
MaxWideRoot == 2        \* harness: low word of the u128 primitive_root
MaxWideStart == 1       \* harness: distance of the u128 start from 0 and from u128::MAX
MaxWideIncr == 2        \* harness: incr of the u128 calculate_key

Clients == 1..NumClients

(***************************************************************************)
(* Numeric encoder (generator/mod.rs).                                     *)
(***************************************************************************)
base == 62

chars ==
    << "0","1","2","3","4","5","6","7","8","9",
       "A","B","C","D","E","F","G","H","I","J","K","L","M",
       "N","O","P","Q","R","S","T","U","V","W","X","Y","Z",
       "a","b","c","d","e","f","g","h","i","j","k","l","m",
       "n","o","p","q","r","s","t","u","v","w","x","y","z" >>

RECURSIVE pow(_, _)
pow(b, e) == IF e = 0 THEN 1 ELSE b * pow(b, e - 1)

max_number(d) == pow(base, d) - 1

\* The loop body of convert_to_string run `left` more times: push chars[num % base],
\* then num /= base.  chars is 0-indexed in the source, 1-indexed here.
RECURSIVE PushDigits(_, _, _)
PushDigits(result, num, left) ==
    IF left = 0 THEN result
    ELSE PushDigits(Append(result, chars[(num % base) + 1]), num \div base, left - 1)

Rev(s) == [i \in 1..Len(s) |-> s[Len(s) + 1 - i]]

convert_to_string_norev(d, number) == PushDigits(<<>>, number, d)

convert_to_string(d, number) == Rev(PushDigits(<<>>, number, d))

(***************************************************************************)
(* Primitive-root strategy: construction check and calculate_key           *)
(* (generator/primitive_root_redis/mod.rs).                                *)
(***************************************************************************)
U128(h, l) == [hi |-> h, lo |-> l]

\* `x as usize` for a u128 x: the low 64 bits.
AsUsize(x) == x.lo

\* x % prime for an x below 2^64 (every x of the model is below 2^31).
RemPrime(x, prime) == IF prime.hi > 0 THEN x ELSE x % prime.lo

\* The while loop of calculate_key.
RECURSIVE SquareMultiply(_, _, _, _)
SquareMultiply(result, b, exponent, prime) ==
    IF exponent > 0
    THEN SquareMultiply(
            IF exponent % 2 = 1 THEN RemPrime(result * b, prime) ELSE result,
            RemPrime(b * b, prime),
            exponent \div 2,
            prime)
    ELSE result

\* calculate_key: [panic |-> TRUE] is the division-by-zero panic of `% prime`.
calculate_key(primitive_config, incr) ==
    IF primitive_config.prime = U128(0, 0)
    THEN [panic |-> TRUE, val |-> 0]
    ELSE [panic |-> FALSE,
          val |-> SquareMultiply(
                      1,
                      primitive_config.primitive_root,
                      RemPrime(incr + primitive_config.start, primitive_config.prime),
                      primitive_config.prime)]

PrimitiveRootRedisGenerator_new(d, primitive_config) ==
    IF AsUsize(primitive_config.prime) > max_number(d)
    THEN [ok |-> FALSE, err |-> "Generator prime is larger than max number"]
    ELSE [ok |-> TRUE]

(***************************************************************************)
(* max_number() on the machine word.  62^11 exceeds 2^64, so the word is   *)
(* written as little-endian limbs of 16 bits: a usize is four limbs.  The  *)
(* build decides what an overflow does: with overflow checks ("debug") the *)
(* operation panics, without them ("release") the result wraps.            *)
(***************************************************************************)
UsizeBits == 64
LimbBase == 256 * 256
UsizeLimbs == UsizeBits \div 16
Builds == {"debug", "release"}

\* The limbs of a carry, low limb first.
RECURSIVE CarryLimbs(_)
CarryLimbs(c) == IF c = 0 THEN <<>> ELSE <<c % LimbBase>> \o CarryLimbs(c \div LimbBase)

\* limbs * k + carry, exactly (as many limbs as the value needs).
RECURSIVE MulSmall(_, _, _)
MulSmall(limbs, k, carry) ==
    IF limbs = <<>> THEN CarryLimbs(carry)
    ELSE LET t == Head(limbs) * k + carry
         IN  <<t % LimbBase>> \o MulSmall(Tail(limbs), k, t \div LimbBase)

\* The low `n` limbs of a value, padded with zero limbs.
Low(limbs, n) == [i \in 1..n |-> IF i <= Len(limbs) THEN limbs[i] ELSE 0]

\* Does the value need more than n limbs?
Exceeds(limbs, n) == \E i \in (n + 1)..Len(limbs) : limbs[i] # 0

WordOne == Low(<<1>>, UsizeLimbs)

\* self * rhs on usize: [overflow, val], val the wrapped product.
usize_mul(word, rhs) ==
    LET exact == MulSmall(word, rhs, 0)
    IN  [overflow |-> Exceeds(exact, UsizeLimbs), val |-> Low(exact, UsizeLimbs)]

\* limbs - 1 with borrow, limb by limb.
RECURSIVE SubOne(_)
SubOne(limbs) ==
    IF limbs = <<>> THEN <<>>
    ELSE IF Head(limbs) > 0 THEN <<Head(limbs) - 1>> \o Tail(limbs)
         ELSE <<LimbBase - 1>> \o SubOne(Tail(limbs))

\* self - 1 on usize: it overflows exactly when self is 0.
usize_sub_one(word) ==
    [overflow |-> \A i \in 1..Len(word) : word[i] = 0, val |-> SubOne(word)]

\* 62_usize.pow(exp): the product of exp factors.  pow multiplies by squaring; every
\* intermediate product it forms divides into the result, so it overflows exactly
\* when this product does, and wraps to the same word.
RECURSIVE usize_pow(_, _)
usize_pow(b, exp) ==
    IF exp = 0 THEN [overflow |-> FALSE, val |-> WordOne]
    ELSE LET rest == usize_pow(b, exp - 1)
             prod == usize_mul(rest.val, b)
         IN  [overflow |-> rest.overflow \/ prod.overflow, val |-> prod.val]

\* max_number() for NUMBER_DIGITS = d under the build: 62_usize.pow(d as u32) - 1.
max_number_usize(d, build) ==
    LET p == usize_pow(base, d)
        m == usize_sub_one(p.val)
    IN  IF build = "debug" /\ (p.overflow \/ m.overflow)
        THEN [panic |-> TRUE, val |-> WordOne]
        ELSE [panic |-> FALSE, val |-> m.val]

(***************************************************************************)
(* calculate_key on the full u128.  A value is written as its limbs with   *)
(* no zero limb at the top (<<>> is 0); a u128 holds eight limbs.  The     *)
(* multiplications, the addition and the final cast are the places where   *)
(* the value can leave its type.                                           *)
(***************************************************************************)
U128Limbs == 2 * UsizeLimbs

RECURSIVE Norm(_)
Norm(limbs) ==
    IF limbs # <<>> /\ limbs[Len(limbs)] = 0
    THEN Norm(SubSeq(limbs, 1, Len(limbs) - 1))
    ELSE limbs

Limb(x, i) == IF i <= Len(x) THEN x[i] ELSE 0

Rest(x) == IF x = <<>> THEN x ELSE Tail(x)

\* h * 2^64 + l as a u128.
U128Word(h, l) == Norm(Low(CarryLimbs(l), UsizeLimbs) \o CarryLimbs(h))

\* u128::MAX
U128Max == [i \in 1..U128Limbs |-> LimbBase - 1]

RECURSIVE AddLimbs(_, _, _)
AddLimbs(a, b, carry) ==
    IF a = <<>> /\ b = <<>>
    THEN CarryLimbs(carry)
    ELSE LET t == Limb(a, 1) + Limb(b, 1) + carry
         IN  <<t % LimbBase>> \o AddLimbs(Rest(a), Rest(b), t \div LimbBase)

\* a - b for a >= b.
RECURSIVE SubLimbs(_, _, _)
SubLimbs(a, b, borrow) ==
    IF a = <<>>
    THEN <<>>
    ELSE LET t == Head(a) - Limb(b, 1) - borrow
         IN  <<(t + LimbBase) % LimbBase>>
                 \o SubLimbs(Tail(a), Rest(b), IF t < 0 THEN 1 ELSE 0)

\* a < b, for a and b with no zero limb at the top.
RECURSIVE Less(_, _)
Less(a, b) ==
    IF Len(a) # Len(b) THEN Len(a) < Len(b)
    ELSE IF a = <<>> THEN FALSE
    ELSE IF a[Len(a)] # b[Len(b)] THEN a[Len(a)] < b[Len(b)]
    ELSE Less(SubSeq(a, 1, Len(a) - 1), SubSeq(b, 1, Len(b) - 1))

\* a * k for one limb k, taken in two halves of eight bits.
MulLimb(a, k) ==
    AddLimbs(MulSmall(a, k % 256, 0), MulSmall(MulSmall(a, k \div 256, 0), 256, 0), 0)

RECURSIVE MulLimbs(_, _)
MulLimbs(a, b) ==
    IF b = <<>>
    THEN <<>>
    ELSE AddLimbs(MulLimb(a, Head(b)), <<0>> \o MulLimbs(a, Tail(b)), 0)

\* x % p for p > 0: through x % 2p, doubling p until it exceeds x.
RECURSIVE RemDoubling(_, _)
RemDoubling(x, p) ==
    IF Less(x, p)
    THEN x
    ELSE LET r == RemDoubling(x, AddLimbs(p, p, 0))
         IN  IF Less(r, p) THEN r ELSE Norm(SubLimbs(r, p, 0))

\* x % p for p > 0: first x % (p * 2^16), one limb at a time.
RECURSIVE Rem(_, _)
Rem(x, p) ==
    IF Less(x, p)
    THEN x
    ELSE RemDoubling(Rem(x, <<0>> \o p), p)

Odd(x) == Limb(x, 1) % 2 = 1

\* x / 2
Half(x) ==
    Norm([i \in 1..Len(x) |-> x[i] \div 2 + (Limb(x, i + 1) % 2) * (LimbBase \div 2)])

\* The exact result, whether it left u128, and the u128 a wrapping build keeps.
u128_of(exact) ==
    [overflow |-> Exceeds(exact, U128Limbs), val |-> Norm(Low(exact, U128Limbs))]

u128_add(a, b) == u128_of(Norm(AddLimbs(a, b, 0)))

u128_mul(a, b) == u128_of(Norm(MulLimbs(a, b)))

\* One turn of the while loop of calculate_key; overflow records whether a
\* product left u128.
LoopTurn(s, prime) ==
    LET product == u128_mul(s.result, s.base)
        square == u128_mul(s.base, s.base)
    IN  [result |-> IF Odd(s.exponent) THEN Rem(product.val, prime) ELSE s.result,
         base |-> Rem(square.val, prime),
         exponent |-> Half(s.exponent),
         overflow |-> \/ s.overflow
                      \/ Odd(s.exponent) /\ product.overflow
                      \/ square.overflow]

RECURSIVE SquareMultiplyU128(_, _)
SquareMultiplyU128(s, prime) ==
    IF s.exponent # <<>> THEN SquareMultiplyU128(LoopTurn(s, prime), prime) ELSE s

\* calculate_key: panic is the overflow panic of a build with overflow checks
\* or the division by zero of `% prime`; overflow tells whether c + S, result *
\* base or base * base left u128, truncated whether `result as usize` lost bits.
calculate_key_u128(primitive_config, incr, build) ==
    LET sum == u128_add(incr, primitive_config.start)
        loop == SquareMultiplyU128(
                    [result |-> <<1>>,
                     base |-> primitive_config.primitive_root,
                     exponent |-> Rem(sum.val, primitive_config.prime),
                     overflow |-> sum.overflow],
                    primitive_config.prime)
    IN  IF build = "debug" /\ sum.overflow
        THEN [panic |-> TRUE, overflow |-> TRUE, truncated |-> FALSE, val |-> WordOne]
        ELSE IF primitive_config.prime = <<>>
        THEN [panic |-> TRUE, overflow |-> sum.overflow, truncated |-> FALSE, val |-> WordOne]
        ELSE IF build = "debug" /\ loop.overflow
        THEN [panic |-> TRUE, overflow |-> TRUE, truncated |-> FALSE, val |-> WordOne]
        ELSE [panic |-> FALSE,
              overflow |-> loop.overflow,
              truncated |-> Exceeds(loop.result, UsizeLimbs),
              val |-> Low(loop.result, UsizeLimbs)]

\* PrimitiveRootRedisGenerator::new on the full words.
PrimitiveRootRedisGenerator_new_u128(d, primitive_config, build) ==
    LET max == max_number_usize(d, build)
    IN  IF max.panic
        THEN [ok |-> FALSE, panic |-> TRUE]
        ELSE IF Less(Norm(max.val), Norm(Low(primitive_config.prime, UsizeLimbs)))
        THEN [ok |-> FALSE, panic |-> FALSE, err |-> "Generator prime is larger than max number"]
        ELSE [ok |-> TRUE]

(***************************************************************************)
(* Errors and their gRPC status (generator/error.rs).                      *)
(***************************************************************************)
ConnectionError == [tag |-> "ConnectionError"]
GeneratorNotFound == [tag |-> "GeneratorNotFound"]
UnknownError(detail) == [tag |-> "UnknownError", detail |-> detail]

\* What redis::RedisError::to_string() gives for the failures that are neither a
\* timeout, a refusal nor a dropped connection.
OtherStoreErrors == {"WRONGTYPE", "LOADING"}
ConnectionFailures == {"timeout", "refused", "dropped"}

\* How one INCR query can end, given the state of the store.
QueryOutcomes(st) ==
    IF st = "up" THEN {"up"} ELSE ConnectionFailures \cup OtherStoreErrors

GeneratorErrors ==
    {ConnectionError, GeneratorNotFound} \cup {UnknownError(d) : d \in OtherStoreErrors}

StatusFrom_AllInternal(err) ==
    IF err.tag = "UnknownError"
    THEN [code |-> "Internal", message |-> "Generator error: " \o err.detail]
    ELSE [code |-> "Internal", message |-> "Generator error: " \o err.tag]

\* impl From<GeneratorError> for Status
StatusFrom(err) ==
    CASE err.tag = "ConnectionError" ->
            [code |-> "Unavailable", message |-> "Connection error"]
      [] err.tag = "GeneratorNotFound" ->
            [code |-> "NotFound", message |-> "Generator not found"]
      [] err.tag = "UnknownError" ->
            [code |-> "Internal", message |-> "Generator error: " \o err.detail]

(***************************************************************************)
(* Integer strategies.  Each returns the set of outcomes one call can      *)
(* have: res is the Result, counter the store's counter after the call,    *)
(* incrs the number of INCR commands the call sent.                        *)
(***************************************************************************)
Ok(v) == [ok |-> TRUE, val |-> v]
Err(e) == [ok |-> FALSE, panic |-> FALSE, err |-> e]
Panicked == [ok |-> FALSE, panic |-> TRUE]

\* The closure given to map_err in RedisGenerator::generate_key.
map_err(failure) ==
    IF failure \in ConnectionFailures THEN ConnectionError ELSE UnknownError(failure)

RandomGenerator_generate_key_wide(d, st, ctr) ==
    { [res |-> Ok(n), counter |-> ctr, incrs |-> 0] : n \in 0..(max_number(d) + 1) }

RandomGenerator_generate_key(d, st, ctr) ==
    { [res |-> Ok(n), counter |-> ctr, incrs |-> 0] : n \in 0..max_number(d) }

\* A variant that sends INCR a second time when the first one failed.
RedisGenerator_generate_key_retry(st, ctr) ==
    IF st = "up"
    THEN { [res |-> Ok(ctr + 1), counter |-> ctr + 1, incrs |-> 1] }
    ELSE { [res |-> Err(map_err(st)), counter |-> ctr, incrs |-> 2] }

\* INCR incr:count: the store adds one and returns the new value, or the query fails
\* (a failed query is taken not to have reached the store: the counter is as before).
RedisGenerator_generate_key(st, ctr) ==
    IF st = "up"
    THEN { [res |-> Ok(ctr + 1), counter |-> ctr + 1, incrs |-> 1] }
    ELSE { [res |-> Err(map_err(st)), counter |-> ctr, incrs |-> 1] }

PrimitiveRootRedisGenerator_generate_key(primitive_config, st, ctr) ==
    { IF o.res.ok
      THEN LET key == calculate_key(primitive_config, o.res.val)
           IN  [o EXCEPT !.res = IF key.panic THEN Panicked ELSE Ok(key.val)]
      ELSE o
      : o \in RedisGenerator_generate_key(st, ctr) }

\* MockGenerator of the service tests: generate_key returns the constant it was given.
MockGenerator_generate_key(returns, ctr) ==
    { [res |-> returns, counter |-> ctr, incrs |-> 0, encoded |-> <<>>] }

\* impl<T: GeneratorInteger> Generator for T: the integer, then convert_to_string.
\* encoded records the integers handed to convert_to_string.
IntegerFacade(d, outcomes) ==
    { IF o.res.ok
      THEN [res |-> Ok(convert_to_string(d, o.res.val)), counter |-> o.counter,
            incrs |-> o.incrs, encoded |-> <<o.res.val>>]
      ELSE [res |-> o.res, counter |-> o.counter, incrs |-> o.incrs, encoded |-> <<>>]
      : o \in outcomes }

\* self.generator.generate_key() on the Arc<dyn Generator> bound at startup.
Generator_generate_key(c, d, st, ctr) ==
    CASE c.kind = "random" -> IntegerFacade(d, RandomGenerator_generate_key(d, st, ctr))
      [] c.kind = "redis" -> IntegerFacade(d, RedisGenerator_generate_key(st, ctr))
      [] c.kind = "primitive_root_redis" ->
            IntegerFacade(d,
                PrimitiveRootRedisGenerator_generate_key(c.primitive_config, st, ctr))
      [] c.kind = "mock" -> MockGenerator_generate_key(c.returns, ctr)

(***************************************************************************)
(* Factory and gRPC service (generator_object.rs, service/mod.rs).         *)
(***************************************************************************)
new_key_generation_layer(c, d) ==
    CASE c.kind = "primitive_root_redis" ->
            PrimitiveRootRedisGenerator_new(d, c.primitive_config)
      [] OTHER -> [ok |-> TRUE]

\* What one RPC did: the response, the counter afterwards, and a record of the
\* handler's calls (INCRs sent, integers encoded, generator errors received).
Answer(op, response, ctr, incrs, encoded, errors) ==
    [op |-> op, response |-> response, counter |-> ctr,
     incrs |-> incrs, encoded |-> encoded, errors |-> errors]

\* The part of an answer kept in `last` (the counter lives in the store), with how
\* the store answered the INCR of a counter strategy ("none": no INCR was sent).
Seen(a, query) ==
    [op |-> a.op, response |-> a.response, query |-> query,
     incrs |-> a.incrs, encoded |-> a.encoded, errors |-> a.errors]

\* A ping that asks the generator for a key before answering.
service_ping_generating(c, d, st, ctr) ==
    { Answer("Ping", [ok |-> TRUE, payload |-> "pong"], o.counter, o.incrs, o.encoded, <<>>)
      : o \in Generator_generate_key(c, d, st, ctr) }

service_ping(c, d, st, ctr) ==
    { Answer("Ping", [ok |-> TRUE, payload |-> "pong"], ctr, 0, <<>>, <<>>) }

\* `?` converts the GeneratorError with From; a panic of the handler ends the call
\* without a response of the service.
service_generate_key(c, d, st, ctr) ==
    { CASE o.res.ok ->
               Answer("GenerateKey", [ok |-> TRUE, key |-> o.res.val],
                      o.counter, o.incrs, o.encoded, <<>>)
        [] ~o.res.ok /\ o.res.panic ->
               Answer("GenerateKey", [ok |-> FALSE, panic |-> TRUE],
                      o.counter, o.incrs, o.encoded, <<>>)
        [] OTHER ->
               Answer("GenerateKey",
                      [ok |-> FALSE, panic |-> FALSE, status |-> StatusFrom(o.res.err)],
                      o.counter, o.incrs, o.encoded, <<o.res.err>>)
      : o \in Generator_generate_key(c, d, st, ctr) }

(***************************************************************************)
(* The running service.                                                    *)
(***************************************************************************)
CounterBased(c) == c.kind \in {"redis", "primitive_root_redis"}

\* High words of GENERATOR_PRIME: zero, or not (RemPrime only tells these apart).
PrimeHighWords == {0, 1}

\* Low words of GENERATOR_PRIME: small ones, and the two around max_number().
PrimeLowWords(d) == (0..MaxPrime) \cup {max_number(d), max_number(d) + 1}

PrimitiveConfigs(d) ==
    { [prime |-> U128(h, l), start |-> s, primitive_root |-> r] :
        h \in PrimeHighWords, l \in PrimeLowWords(d), s \in 0..MaxStart, r \in 0..MaxRoot }

MockReturns ==
    {Ok(<<"a", "b", "c", "d", "e", "f", "1", "2">>)} \cup {Err(e) : e \in GeneratorErrors}

\* GeneratorConfig, and the MockGenerator the service tests bind instead.
GeneratorConfigs(d) ==
    {[kind |-> "random"], [kind |-> "redis"]}
    \cup {[kind |-> "primitive_root_redis", primitive_config |-> p] : p \in PrimitiveConfigs(d)}
    \cup {[kind |-> "mock", returns |-> m] : m \in MockReturns}

CounterCap(c) == IF c.kind = "primitive_root_redis" THEN MaxModExpCounter ELSE MaxCounter

NoAnswer == Seen(Answer("none", [ok |-> TRUE], 0, 0, <<>>, <<>>), "none")
NoCall == [fn |-> "none"]
NoRet == [done |-> FALSE]

HarnessOff == call = NoCall /\ ret = NoRet

\* The random strategy has 62^digits outcomes per call: it is drawn with one digit.
Init ==
    /\ phase = "init"
    /\ digits \in 1..MaxServeDigits
    /\ cfg \in GeneratorConfigs(digits)
    /\ cfg.kind = "random" => digits = 1
    /\ store = "up"
    /\ counter = 0
    /\ pc = [r \in Clients |-> "idle"]
    /\ last = NoAnswer
    /\ issuedKeys = {}
    /\ HarnessOff

\* main(): new_key_generation_layer(...)? then serve.
Startup ==
    /\ phase = "init"
    /\ phase' = IF new_key_generation_layer(cfg, digits).ok THEN "serving" ELSE "failed"
    /\ UNCHANGED <<cfg, digits, store, counter, pc, last, issuedKeys, call, ret>>

\* The store becomes unreachable or faulty, or recovers.
StoreChange ==
    /\ store' = IF store = "up" THEN "down" ELSE "up"
    /\ UNCHANGED <<phase, cfg, digits, counter, pc, last, issuedKeys, call, ret>>

\* A GenerateKey request arrives; requests are handled concurrently.
Receive(r) ==
    /\ phase = "serving"
    /\ pc[r] = "idle"
    /\ pc' = [pc EXCEPT ![r] = "inflight"]
    /\ UNCHANGED <<phase, cfg, digits, store, counter, last, issuedKeys, call, ret>>

\* The handler runs: the generator (with its INCR, atomic in the store), the
\* encoding, the response.  The INCR is the handler's only access to shared state,
\* so the rest of the handler is taken in the same step.
GenerateKey(r) ==
    /\ phase = "serving"
    /\ pc[r] = "inflight"
    /\ \E q \in QueryOutcomes(store) :
       \E a \in service_generate_key(cfg, digits, q, counter) :
          /\ a.counter <= CounterCap(cfg)
          /\ counter' = a.counter
          /\ last' = Seen(a, IF a.incrs > 0 THEN q ELSE "none")
          /\ issuedKeys' = IF CounterBased(cfg) /\ a.response.ok
                           THEN issuedKeys \cup {a.response.key}
                           ELSE issuedKeys
    /\ pc' = [pc EXCEPT ![r] = "idle"]
    /\ UNCHANGED <<phase, cfg, digits, store, call, ret>>

Ping ==
    /\ phase = "serving"
    /\ \E q \in QueryOutcomes(store) :
       \E a \in service_ping(cfg, digits, q, counter) :
          /\ a.counter <= CounterCap(cfg)
          /\ counter' = a.counter
          /\ last' = Seen(a, IF a.incrs > 0 THEN q ELSE "none")
    /\ UNCHANGED <<phase, cfg, digits, store, pc, issuedKeys, call, ret>>

Next ==
    \/ Startup
    \/ StoreChange
    \/ \E r \in Clients : Receive(r)
    \/ \E r \in Clients : GenerateKey(r)
    \/ Ping

Spec == Init /\ [][Next]_vars

(***************************************************************************)
(* Unit harness: one call of a pure function on drawn arguments.           *)
(***************************************************************************)
ServiceOff ==
    /\ phase = "off"
    /\ digits = 1
    /\ cfg = [kind |-> "none"]
    /\ store = "up"
    /\ counter = 0
    /\ pc = [r \in Clients |-> "idle"]
    /\ last = NoAnswer
    /\ issuedKeys = {}

\* convert_to_string on every number of the width.
EncoderCalls(d) ==
    [fn : {"convert_to_string"}, digits : {d}, number : 0..max_number(d)]

CalculateCalls(p) ==
    [fn : {"calculate_key"},
     primitive_config :
        [prime : {U128(0, p)}, start : 0..MaxCalcStart, primitive_root : 0..MaxCalcRoot],
     incr : 0..MaxCalcIncr]

\* max_number() for a configured width, under either build.
MaxNumberCalls == [fn : {"max_number"}, digits : 1..MaxWordDigits, build : Builds]

\* Primitive configurations on the full u128: primes and roots on either side
\* of 2^64, starts next to 0 and next to u128::MAX.
WidePrimes(d) ==
    { U128Word(h, l) : h \in PrimeHighWords,
                       l \in (0..MaxWidePrime) \cup {max_number(d), max_number(d) + 1} }

WideRoots == { U128Word(h, l) : h \in PrimeHighWords, l \in 0..MaxWideRoot }

WideStarts ==
    { CarryLimbs(s) : s \in 0..MaxWideStart }
        \cup { Norm(SubLimbs(U128Max, CarryLimbs(s), 0)) : s \in 0..MaxWideStart }

CalculateU128Calls(d) ==
    [fn : {"calculate_key_u128"},
     digits : {d},
     primitive_config : [prime : WidePrimes(d), start : WideStarts, primitive_root : WideRoots],
     incr : { CarryLimbs(c) : c \in 0..MaxWideIncr },
     build : Builds]

InitUnit ==
    /\ ServiceOff
    /\ \/ \E d \in 1..MaxDigits : call \in EncoderCalls(d)
       \/ \E p \in 0..MaxCalcPrime : call \in CalculateCalls(p)
       \/ call \in MaxNumberCalls
       \/ \E d \in 1..MaxWideDigits : call \in CalculateU128Calls(d)
    /\ ret = NoRet

ConvertToString ==
    /\ call.fn = "convert_to_string"
    /\ ~ret.done
    /\ ret' = [done |-> TRUE, val |-> convert_to_string(call.digits, call.number)]
    /\ UNCHANGED <<phase, cfg, digits, store, counter, pc, last, issuedKeys, call>>

CalculateKey ==
    /\ call.fn = "calculate_key"
    /\ ~ret.done
    /\ ret' = [done |-> TRUE, val |-> calculate_key(call.primitive_config, call.incr)]
    /\ UNCHANGED <<phase, cfg, digits, store, counter, pc, last, issuedKeys, call>>

MaxNumber ==
    /\ call.fn = "max_number"
    /\ ~ret.done
    /\ ret' = [done |-> TRUE, val |-> max_number_usize(call.digits, call.build)]
    /\ UNCHANGED <<phase, cfg, digits, store, counter, pc, last, issuedKeys, call>>

\* The generator is constructed and, when construction accepts the
\* configuration, calculate_key runs on the counter value.
CalculateKeyU128 ==
    /\ call.fn = "calculate_key_u128"
    /\ ~ret.done
    /\ LET made == PrimitiveRootRedisGenerator_new_u128(call.digits, call.primitive_config, call.build)
       IN  ret' = [done |-> TRUE,
                   made |-> made,
                   val |-> IF made.ok
                           THEN calculate_key_u128(call.primitive_config, call.incr, call.build)
                           ELSE [panic |-> FALSE, overflow |-> FALSE,
                                 truncated |-> FALSE, val |-> WordOne]]
    /\ UNCHANGED <<phase, cfg, digits, store, counter, pc, last, issuedKeys, call>>

NextUnit == ConvertToString \/ CalculateKey \/ MaxNumber \/ CalculateKeyU128

SpecUnit == InitUnit /\ [][NextUnit]_vars

(***************************************************************************)
(* Properties of the encoder and of calculate_key (under SpecUnit).        *)
(***************************************************************************)
Digits09 == <<"0","1","2","3","4","5","6","7","8","9">>
UpperAZ ==
    <<"A","B","C","D","E","F","G","H","I","J","K","L","M",
      "N","O","P","Q","R","S","T","U","V","W","X","Y","Z">>
LowerAZ ==
    <<"a","b","c","d","e","f","g","h","i","j","k","l","m",
      "n","o","p","q","r","s","t","u","v","w","x","y","z">>
Alphabet62 == Digits09 \o UpperAZ \o LowerAZ

DigitValue(ch) == CHOOSE v \in 0..(Len(Alphabet62) - 1) : Alphabet62[v + 1] = ch

\* The string read as a base-62 numeral, most significant digit first.
RECURSIVE ReadNumeral(_, _)
ReadNumeral(s, acc) ==
    IF s = <<>> THEN acc
    ELSE ReadNumeral(Tail(s), acc * Len(Alphabet62) + DigitValue(Head(s)))

Encoded == call.fn = "convert_to_string" /\ ret.done
Calculated == call.fn = "calculate_key" /\ ret.done

\* C1: for 0 <= n <= 62^D - 1, convert_to_string(n) has exactly D characters of the
\* alphabet 0-9, A-Z, a-z, and read back as a base-62 numeral it gives n.
C1_EncodeRoundTrip ==
    Encoded =>
        /\ Len(ret.val) = call.digits
        /\ \A i \in 1..Len(ret.val) : \E v \in 1..Len(Alphabet62) : ret.val[i] = Alphabet62[v]
        /\ ReadNumeral(ret.val, 0) = call.number

\* A two-digit encoding that needed padding: 61 is "0z".
C1_Witness ==
    Encoded /\ call.digits = 2 /\ call.number = 61 /\ ret.val = <<"0", "z">>

\* C2: calculate_key(c) is (R ^ ((c + S) mod P)) mod P for every modulus P >= 1,
\* root R, start S and counter value c.
C2_DirectExponentiation ==
    (Calculated /\ call.primitive_config.prime.lo >= 1) =>
        LET P == call.primitive_config.prime.lo
            R == call.primitive_config.primitive_root
            S == call.primitive_config.start
        IN  /\ ~ret.val.panic
            /\ ret.val.val = pow(R, (call.incr + S) % P) % P

IsPrime(p) == p >= 2 /\ \A k \in 2..(p - 1) : p % k # 0

\* g is a primitive root of the prime p: its powers g^1 .. g^(p-1) are all of 1..p-1.
IsPrimitiveRoot(g, p) == { pow(g, k) % p : k \in 1..(p - 1) } = 1..(p - 1)

\* C3: with P prime and R a primitive root of P, the keys of P consecutive counter
\* values are pairwise distinct and are exactly the values 0..P-1.
C3_Permutation ==
    LET P == call.primitive_config.prime.lo
        keys == [c \in call.incr..(call.incr + P - 1) |->
                    calculate_key(call.primitive_config, c).val]
    IN  (Calculated /\ IsPrime(P) /\ IsPrimitiveRoot(call.primitive_config.primitive_root, P)) =>
            /\ \A c1, c2 \in DOMAIN keys : c1 # c2 => keys[c1] # keys[c2]
            /\ { keys[c] : c \in DOMAIN keys } = 0..(P - 1)

(***************************************************************************)
(* Properties of the running service (under Spec).                         *)
(***************************************************************************)
\* 62^D - 1 for the width the service runs with.
EncodableMax == pow(Len(Alphabet62), digits) - 1

Strategies == {"random", "redis", "primitive_root_redis"}

\* Client r's GenerateKey is answered in this step.
Answered(r) == pc[r] = "inflight" /\ pc'[r] = "idle"

\* C4: whichever strategy is bound, every integer handed to the encoder is within
\* [0, 62^D - 1].
C4_EncodedWithinRange ==
    (cfg.kind \in Strategies) =>
        \A i \in 1..Len(last.encoded) : last.encoded[i] \in 0..EncodableMax

\* The counter strategy alone: every integer the Redis strategy hands to the encoder
\* is within [0, 62^D - 1].
C4_CounterWithinRange ==
    (cfg.kind = "redis") =>
        \A i \in 1..Len(last.encoded) : last.encoded[i] \in 0..EncodableMax

\* C5: a primitive-root strategy whose modulus P (a u128) exceeds 62^D - 1 is never
\* constructed: the service does not reach serving and answers no GenerateKey.
C5_OversizedPrimeRejected ==
    (/\ cfg.kind = "primitive_root_redis"
     /\ \/ cfg.primitive_config.prime.hi > 0
        \/ cfg.primitive_config.prime.lo > EncodableMax) =>
        phase # "serving" /\ last.op # "GenerateKey"

\* C6: with a counter-based strategy no two successful GenerateKey calls return the
\* same key.
C6_KeysNeverRepeat ==
    [][\A r \in Clients :
          (Answered(r) /\ CounterBased(cfg) /\ last'.response.ok) =>
              last'.response.key \notin issuedKeys]_vars

\* C7: a GenerateKey call on a counter-based strategy sends exactly one INCR: when
\* it succeeds the counter has advanced by exactly one, and when the INCR fails the
\* error is returned at once, with no second INCR (the counter has advanced by at
\* most the one INCR that was sent).
C7_OneIncrPerCall ==
    [][\A r \in Clients :
          (Answered(r) /\ CounterBased(cfg)) =>
              /\ last'.incrs = 1
              /\ last'.response.ok => counter' = counter + 1
              /\ last'.query # "up" =>
                    /\ ~last'.response.ok
                    /\ Len(last'.errors) = 1
                    /\ counter' \in {counter, counter + 1}]_vars

\* A failed call after two successful ones under the Redis strategy.
C7_Witness ==
    /\ cfg.kind = "redis"
    /\ counter = 2
    /\ last.op = "GenerateKey"
    /\ last.query = "timeout"
    /\ last.incrs = 1
    /\ ~last.response.ok

\* C8: a store failure that is a timeout, a refusal or a dropped connection reaches
\* the caller as Unavailable; ConnectionError maps to Unavailable, GeneratorNotFound
\* to NotFound, UnknownError(detail) to Internal with the detail in the message; a
\* failed request carries no key.
C8_ErrorMapping ==
    last.op = "GenerateKey" =>
        /\ last.query \in ConnectionFailures =>
              /\ last.errors = <<[tag |-> "ConnectionError"]>>
              /\ ~last.response.ok
              /\ last.response.status.code = "Unavailable"
        /\ last.query \in OtherStoreErrors =>
              /\ ~last.response.ok
              /\ last.response.status.code = "Internal"
              /\ last.response.status.message = "Generator error: " \o last.query
        /\ \A i \in 1..Len(last.errors) :
              LET e == last.errors[i]
                  status == last.response.status
              IN  /\ ~last.response.ok
                  /\ "key" \notin DOMAIN last.response
                  /\ e.tag = "ConnectionError" => status.code = "Unavailable"
                  /\ e.tag = "GeneratorNotFound" => status.code = "NotFound"
                  /\ e.tag = "UnknownError" =>
                        /\ status.code = "Internal"
                        /\ status.message = "Generator error: " \o e.detail

\* A dropped connection under the primitive-root strategy, answered Unavailable.
C8_Witness ==
    /\ cfg.kind = "primitive_root_redis"
    /\ last.op = "GenerateKey"
    /\ last.query = "dropped"
    /\ last.response.status.code = "Unavailable"

\* The mock bound by the service tests returning GeneratorNotFound.
C8_NotFoundReached ==
    /\ cfg.kind = "mock"
    /\ last.op = "GenerateKey"
    /\ last.errors = <<[tag |-> "GeneratorNotFound"]>>

\* C9: Ping answers "pong" in every serving state, whatever the strategy and the
\* state of the store, without calling the generator: the counter, the issued keys
\* and the in-flight requests are as before.  (A step that is not a stuttering step
\* and changes neither phase, store nor pc is a Ping.)
C9_PingPong ==
    /\ [](phase = "serving" => ENABLED Ping)
    /\ [][(phase' = phase /\ store' = store /\ pc' = pc) =>
            /\ last'.op = "Ping"
            /\ last'.response = [ok |-> TRUE, payload |-> "pong"]
            /\ last'.incrs = 0
            /\ last'.encoded = <<>>
            /\ counter' = counter
            /\ issuedKeys' = issuedKeys]_vars

\* A ping answered while the store is down, after keys were generated.
C9_Witness ==
    /\ cfg.kind = "redis"
    /\ store = "down"
    /\ counter = 3
    /\ last.op = "Ping"
    /\ last.response.payload = "pong"

RECURSIVE ExactMaxNumber(_)
ExactMaxNumber(d) ==
    IF d = 0 THEN <<>>
    ELSE MulSmall(ExactMaxNumber(d - 1), Len(Alphabet62), Len(Alphabet62) - 1)

\* C11: for every width D >= 1, max_number() returns exactly 62^D - 1 as a 64-bit
\* word, with no overflow and no wrap-around.
C11_MaxNumberExact ==
    (call.fn = "max_number" /\ ret.done) =>
        /\ ~ret.val.panic
        /\ ~Exceeds(ExactMaxNumber(call.digits), UsizeLimbs)
        /\ ret.val.val = Low(ExactMaxNumber(call.digits), UsizeLimbs)

\* The widths whose 62^D - 1 fits the word: there max_number() is exact in both builds.
C11_ExactWhileItFits ==
    (call.fn = "max_number" /\ ret.done /\ call.digits <= 10) => C11_MaxNumberExact

\* max_number() for the default width 8 is 62^8 - 1 = 218340105584895 = 0xC694_446F_00FF.
C11_DefaultWidth ==
    (call.fn = "max_number" /\ ret.done /\ call.digits = 8) =>
        ret.val = [panic |-> FALSE, val |-> <<255, 17519, 50836, 0>>]

\* C12: for every configuration (P, R, S) that construction accepts and every
\* counter value c, no intermediate value of calculate_key (c + S, result * base,
\* base * base) leaves the 128-bit unsigned range, and the final result fits the
\* machine word it is cast to.
C12_OverflowSafe ==
    (call.fn = "calculate_key_u128" /\ ret.done /\ ret.made.ok) =>
        /\ ~ret.val.overflow
        /\ ~ret.val.truncated

\* C12, where it holds: with prime and primitive_root below 2^64 and start next
\* to 0, nothing leaves u128 and the result fits the word.
C12_SafeBelowWord ==
    (/\ call.fn = "calculate_key_u128" /\ ret.done /\ ret.made.ok
     /\ ~Exceeds(call.primitive_config.prime, UsizeLimbs)
     /\ ~Exceeds(call.primitive_config.primitive_root, UsizeLimbs)
     /\ ~Exceeds(call.primitive_config.start, UsizeLimbs)) =>
        C12_OverflowSafe

\* The full-width calculate_key agrees with calculate_key of the small model.
C12_ModelsAgree ==
    (/\ call.fn = "calculate_key_u128" /\ ret.done /\ ret.made.ok
     /\ Len(call.primitive_config.prime) <= 1
     /\ Len(call.primitive_config.primitive_root) <= 1
     /\ Len(call.primitive_config.start) <= 1) =>
        LET small == calculate_key(
                         [prime |-> U128(0, Limb(call.primitive_config.prime, 1)),
                          primitive_root |-> Limb(call.primitive_config.primitive_root, 1),
                          start |-> Limb(call.primitive_config.start, 1)],
                         Limb(call.incr, 1))
        IN  /\ ret.val.panic = small.panic
            /\ ~small.panic => ret.val.val = Low(CarryLimbs(small.val), UsizeLimbs)

====
